---- MODULE Spec2Model ----
(***************************************************************************)
(* chargetop: battery telemetry acquisition (battery/battery.go) and the   *)
(* refresh scheduler of the two program variants (main.go, which fetches   *)
(* in the background, and the older variant that fetches inside Update).   *)
(***************************************************************************)
EXTENDS Integers, Sequences, FiniteSets, TLC

VARIABLES
    raw,        \* the registry values behind the last platform query
    input,      \* outcome of the last `ioreg` run: [ok, output]
    result,     \* what GetBatteryInfo returned for it: [done, info, err]
    variant,    \* "async" (main.go) or "sync" (the older main)
    m,          \* the Bubble Tea model: info, history, err, help, width, height
    timers,     \* number of pending tea.Tick commands
    running,    \* fetchBatteryCmd goroutines that have not returned yet (cycle ids)
    msgs,       \* batteryMsg values sent to the program, not yet handled
    quit,       \* tea.Quit was returned
    issued,     \* number of GetBatteryInfo calls started after initialModel
    readings    \* percent of every acquisition that succeeded after initialModel, as applied

vars == <<raw, input, result, variant, m, timers, running, msgs, quit, issued, readings>>

-----------------------------------------------------------------------------
(* Bounds of the model *)

\* largest small capacity value tried for CurrentCapacity, MaxCapacity, DesignCapacity, AppleRawMaxCapacity
MaxCap == 3
\* acquisitions issued after start-up in Spec
MaxCycles == 3
\* fetch commands outstanding at once (running or delivered but unhandled)
MaxInFlight == 2
\* acquisitions issued after start-up in LongSpec, beyond the history capacity
LongExtra == 2
\* LongSpec takes manual refreshes only among its first LongKeyWindow acquisitions
LongKeyWindow == 2
\* fetch commands outstanding at once in LongSpec
LongInFlight == 2

(* Program constants *)

HistoryCap == 60
Sentinel == 65535

NoErr == "nil"
ExecErr == "exec: ioreg failed"
Absent == 0 - 1

-----------------------------------------------------------------------------
(* Text of the ioreg dump: a sequence of `"key" = value` records.  A value is
   a run of digits (kind "int"), a bare word such as Yes/No (kind "word") or a
   quoted string (kind "str"); `tight` records are written "key"=value. *)

Rec(k, t, kd, n, s) == [key |-> k, tight |-> t, kind |-> kd, n |-> n, s |-> s]

\* a regular expression of battery.go: the quoted key, `=` with or without \s*, one capture group
Pattern(k, ws, kd, words) == [key |-> k, ws |-> ws, kind |-> kd, words |-> words]

Matches(e, p) ==
    /\ e.key = p.key
    /\ (p.ws \/ e.tight)
    /\ e.kind = p.kind
    /\ (p.kind = "word" => e.s \in p.words)
    /\ (p.kind = "str" => e.s # "")

\* regexp.FindStringSubmatch: the leftmost match, 0 when there is none
FirstMatch(text, p) ==
    IF \E i \in 1..Len(text) : Matches(text[i], p)
    THEN CHOOSE i \in 1..Len(text) :
            /\ Matches(text[i], p)
            /\ \A j \in 1..(i - 1) : ~Matches(text[j], p)
    ELSE 0

getInt(text, p) ==
    LET i == FirstMatch(text, p) IN IF i > 0 THEN text[i].n ELSE 0

getString(text, p) ==
    LET i == FirstMatch(text, p) IN IF i > 0 THEN text[i].s ELSE ""

IntPat(k) == Pattern(k, TRUE, "int", {})

-----------------------------------------------------------------------------
(* Formatting: a Go string is modelled as the sequence of its pieces, digits
   one by one, so that "" is << >> and "2:05 remaining" is
   <<"2", ":", "0", "5", " remaining">>. *)

Digit(d) == CASE d = 0 -> "0" [] d = 1 -> "1" [] d = 2 -> "2" [] d = 3 -> "3"
              [] d = 4 -> "4" [] d = 5 -> "5" [] d = 6 -> "6" [] d = 7 -> "7"
              [] d = 8 -> "8" [] d = 9 -> "9"

RECURSIVE Itoa(_)
\* %d of a non-negative integer
Itoa(n) == IF n < 10 THEN <<Digit(n)>> ELSE Itoa(n \div 10) \o <<Digit(n % 10)>>

\* mutant: %d in place of %02d
Pad2_NoPadding(n) == Itoa(n)

\* %02d of a non-negative integer
Pad2(n) == IF n < 10 THEN <<"0", Digit(n)>> ELSE Itoa(n)

\* "%d:%02d remaining"
FormatRemaining(tr) == Itoa(tr \div 60) \o <<":">> \o Pad2(tr % 60) \o <<" remaining">>

\* mutant: the fraction is cut off instead of rounded
RoundPct_Truncate(num, den) == (num * 100) \div den

\* %.0f of num/den*100 for num, den > 0: nearest integer, an exact half to the even one
RoundPct(num, den) ==
    LET q == (num * 100) \div den
        r == (num * 100) % den
    IN  IF 2 * r < den THEN q
        ELSE IF 2 * r > den THEN q + 1
        ELSE IF q % 2 = 0 THEN q ELSE q + 1

FormatHealth(rawMax, design) == Itoa(RoundPct(rawMax, design)) \o <<"%">>

\* float64(temp) / 100.0, kept as whole degrees and hundredths
Celsius(temp) == [deg |-> temp \div 100, centi |-> temp % 100]

-----------------------------------------------------------------------------
(* battery.GetBatteryInfo *)

\* info := BatteryInfo{Status: "Unknown", Remaining: "Calculating..."}
DefaultInfo ==
    [Percent |-> 0, Status |-> "Unknown", Remaining |-> <<"Calculating...">>,
     IsCharging |-> FALSE, Temperature |-> Celsius(0), CycleCount |-> 0,
     Condition |-> "", MaxCapacity |-> 0, Health |-> << >>, Wattage |-> 0,
     Serial |-> ""]

\* mutant: divides before multiplying
PercentOf_DivideFirst(currentCap, maxCap) ==
    IF maxCap > 0 THEN (currentCap \div maxCap) * 100 ELSE 0

PercentOf(currentCap, maxCap) ==
    IF maxCap > 0 THEN (currentCap * 100) \div maxCap ELSE 0

\* mutant: the full-charge flag is looked at first
StatusOf_FullFirst(text) ==
    IF getString(text, Pattern("FullyCharged", TRUE, "word", {"Yes"})) = "Yes"
    THEN [IsCharging |-> FALSE, Status |-> "Charged"]
    ELSE IF getString(text, Pattern("IsCharging", TRUE, "word", {"Yes", "No"})) = "Yes"
         THEN [IsCharging |-> TRUE, Status |-> "Charging"]
         ELSE [IsCharging |-> FALSE, Status |-> "Discharging"]

StatusOf(text) ==
    IF getString(text, Pattern("IsCharging", TRUE, "word", {"Yes", "No"})) = "Yes"
    THEN [IsCharging |-> TRUE, Status |-> "Charging"]
    ELSE [IsCharging |-> FALSE,
          Status |-> IF getString(text, Pattern("FullyCharged", TRUE, "word", {"Yes"})) = "Yes"
                     THEN "Charged" ELSE "Discharging"]

RemainingOf(tr, status) ==
    IF tr < Sentinel THEN FormatRemaining(tr)
    ELSE IF status = "Charged" THEN << >> ELSE <<"Calculating...">>

TemperatureOf(temp) == IF temp > 0 THEN Celsius(temp) ELSE Celsius(0)

HealthOf(designCap, appleRawMax) ==
    IF designCap > 0 /\ appleRawMax > 0 THEN FormatHealth(appleRawMax, designCap) ELSE << >>

ParseInfo(text) ==
    LET currentCap == getInt(text, IntPat("CurrentCapacity"))
        maxCap == getInt(text, IntPat("MaxCapacity"))
        st == StatusOf(text)
        tr == getInt(text, IntPat("TimeRemaining"))
        designCap == getInt(text, IntPat("DesignCapacity"))
        appleRawMax == getInt(text, IntPat("AppleRawMaxCapacity"))
    IN  [Percent |-> PercentOf(currentCap, maxCap),
         Status |-> st.Status,
         Remaining |-> RemainingOf(tr, st.Status),
         IsCharging |-> st.IsCharging,
         Temperature |-> TemperatureOf(getInt(text, IntPat("Temperature"))),
         CycleCount |-> getInt(text, IntPat("CycleCount")),
         Condition |-> "",
         MaxCapacity |-> maxCap,
         Health |-> HealthOf(designCap, appleRawMax),
         Wattage |-> getInt(text, Pattern("Watts", FALSE, "int", {})),
         Serial |-> getString(text, Pattern("Serial", TRUE, "str", {}))]

\* mutant: the error is returned only after the buffer has been parsed
GetBatteryInfo_ParsePartial(run) ==
    [info |-> ParseInfo(run.output), err |-> IF run.ok THEN NoErr ELSE ExecErr]

\* mutant: a dump without a temperature or a cycle count is reported as an error
GetBatteryInfo_StrictFields(run) ==
    IF ~run.ok THEN [info |-> DefaultInfo, err |-> ExecErr]
    ELSE IF FirstMatch(run.output, IntPat("Temperature")) = 0
            \/ FirstMatch(run.output, IntPat("CycleCount")) = 0
         THEN [info |-> DefaultInfo, err |-> "parse error"]
         ELSE [info |-> ParseInfo(run.output), err |-> NoErr]

\* run = [ok, output]: whether cmd.Run() returned nil, and what it wrote to stdout
GetBatteryInfo(run) ==
    IF ~run.ok THEN [info |-> DefaultInfo, err |-> ExecErr]
    ELSE [info |-> ParseInfo(run.output), err |-> NoErr]

-----------------------------------------------------------------------------
(* What the registry holds, and the text ioreg prints for it.  A field that
   does not appear is Absent (numbers) or "" (flags, serial). *)

IntField(k, v, t) == IF v = Absent THEN << >> ELSE <<Rec(k, t, "int", v, "")>>
WordField(k, w) == IF w = "" THEN << >> ELSE <<Rec(k, FALSE, "word", 0, w)>>
StrField(k, s) == IF s = "" THEN << >> ELSE <<Rec(k, FALSE, "str", 0, s)>>

\* records whose value has the wrong shape for the key
Malformed ==
    <<Rec("IsCharging", FALSE, "word", 0, "Maybe"),
      Rec("MaxCapacity", FALSE, "str", 0, "n/a"),
      Rec("TimeRemaining", FALSE, "word", 0, "unknown"),
      Rec("AppleRawMaxCapacity", FALSE, "word", 0, "None"),
      Rec("Serial", FALSE, "int", 7, "")>>

Render(r) ==
    (IF r.noise THEN Malformed ELSE << >>)
    \o IntField("CurrentCapacity", r.CurrentCapacity, FALSE)
    \o IntField("MaxCapacity", r.MaxCapacity, FALSE)
    \o WordField("IsCharging", r.IsCharging)
    \o WordField("FullyCharged", r.FullyCharged)
    \o IntField("TimeRemaining", r.TimeRemaining, FALSE)
    \o IntField("Temperature", r.Temperature, FALSE)
    \o IntField("CycleCount", r.CycleCount, FALSE)
    \o IntField("Watts", r.Watts, r.wattsNested)
    \o StrField("Serial", r.Serial)
    \o IntField("DesignCapacity", r.DesignCapacity, FALSE)
    \o IntField("AppleRawMaxCapacity", r.AppleRawMaxCapacity, FALSE)

BaseRaw ==
    [CurrentCapacity |-> 15, MaxCapacity |-> 97, IsCharging |-> "No",
     FullyCharged |-> "", TimeRemaining |-> 125, Temperature |-> 3040,
     CycleCount |-> 193, Watts |-> 60, wattsNested |-> TRUE, Serial |-> "F8Y",
     DesignCapacity |-> 8579, AppleRawMaxCapacity |-> 7800, noise |-> FALSE]

CapValues == {Absent} \cup (0..MaxCap) \cup {15, 97, 120}
TimeValues == {Absent, 0, 59, 60, 125, Sentinel - 1, Sentinel, Sentinel + 1, 2 * Sentinel}
DesignValues == {Absent} \cup (0..MaxCap) \cup {8579}
RawMaxValues == {Absent} \cup (0..MaxCap) \cup {7800}
Flags == {"", "Yes", "No"}

CapRaws ==
    {[BaseRaw EXCEPT !.CurrentCapacity = c, !.MaxCapacity = x] : c \in CapValues, x \in CapValues}
StatusRaws ==
    {[BaseRaw EXCEPT !.IsCharging = c, !.FullyCharged = f, !.TimeRemaining = t] :
        c \in Flags, f \in Flags, t \in TimeValues}
HealthRaws ==
    {[BaseRaw EXCEPT !.DesignCapacity = d, !.AppleRawMaxCapacity = x] :
        d \in DesignValues, x \in RawMaxValues}
MiscRaws ==
    {[BaseRaw EXCEPT !.Temperature = t, !.CycleCount = c, !.Watts = w,
                     !.wattsNested = n, !.Serial = s] :
        t \in {Absent, 0, 3040}, c \in {Absent, 193}, w \in {Absent, 60},
        n \in BOOLEAN, s \in {"", "F8Y"}}
EmptyRaw ==
    [CurrentCapacity |-> Absent, MaxCapacity |-> Absent, IsCharging |-> "",
     FullyCharged |-> "", TimeRemaining |-> Absent, Temperature |-> Absent,
     CycleCount |-> Absent, Watts |-> Absent, wattsNested |-> TRUE, Serial |-> "",
     DesignCapacity |-> Absent, AppleRawMaxCapacity |-> Absent, noise |-> FALSE]

\* the base registry with any subset of its eleven fields missing
Field(S, i, v, none) == IF i \in S THEN v ELSE none
SubsetRaws ==
    {[CurrentCapacity |-> Field(S, 1, 15, Absent), MaxCapacity |-> Field(S, 2, 97, Absent),
      IsCharging |-> Field(S, 3, "No", ""), FullyCharged |-> Field(S, 4, "Yes", ""),
      TimeRemaining |-> Field(S, 5, 125, Absent), Temperature |-> Field(S, 6, 3040, Absent),
      CycleCount |-> Field(S, 7, 193, Absent), Watts |-> Field(S, 8, 60, Absent),
      wattsNested |-> TRUE, Serial |-> Field(S, 9, "F8Y", ""),
      DesignCapacity |-> Field(S, 10, 8579, Absent),
      AppleRawMaxCapacity |-> Field(S, 11, 7800, Absent), noise |-> FALSE] :
        S \in SUBSET (1..11)}

AcqRaws ==
    LET clean == CapRaws \cup StatusRaws \cup HealthRaws \cup MiscRaws \cup SubsetRaws \cup {EmptyRaw}
    IN  clean \cup {[r EXCEPT !.noise = TRUE] : r \in clean}

\* one run of the platform query over registry r: it succeeds, or cmd.Run() fails
\* (with whatever it had written so far left in the buffer)
Runs(r) == {[ok |-> TRUE, output |-> Render(r)], [ok |-> FALSE, output |-> Render(r)]}

NotRun == [done |-> FALSE, info |-> DefaultInfo, err |-> NoErr]
Returned(g) == [done |-> TRUE, info |-> g.info, err |-> g.err]

-----------------------------------------------------------------------------
(* AcqSpec: GetBatteryInfo applied once to each input *)

IdleModel ==
    [info |-> DefaultInfo, history |-> <<0>>, err |-> NoErr,
     showAll |-> FALSE, width |-> 0, height |-> 0, helpWidth |-> 0]

AcqInit ==
    /\ raw \in AcqRaws
    /\ input \in Runs(raw)
    /\ result = NotRun
    /\ variant = "async"
    /\ m = IdleModel
    /\ timers = 0
    /\ running = {}
    /\ msgs = << >>
    /\ quit = FALSE
    /\ issued = 0
    /\ readings = << >>

Acquire ==
    /\ ~result.done
    /\ result' = Returned(GetBatteryInfo(input))
    /\ UNCHANGED <<raw, input, variant, m, timers, running, msgs, quit, issued, readings>>

AcqNext == Acquire

AcqSpec == AcqInit /\ [][AcqNext]_vars

-----------------------------------------------------------------------------
(* The Bubble Tea program: model, Init, Update.  m.now (the footer clock of
   main.go) and the key bindings table are not modelled. *)

\* tea.Cmd values returned by Init and Update: how many timers and fetches they start
NoCmd == [tick |-> 0, fetch |-> 0, quit |-> FALSE]
QuitCmd == [tick |-> 0, fetch |-> 0, quit |-> TRUE]
tickCmd == [tick |-> 1, fetch |-> 0, quit |-> FALSE]
fetchBatteryCmd == [tick |-> 0, fetch |-> 1, quit |-> FALSE]
Batch(a, b) == [tick |-> a.tick + b.tick, fetch |-> a.fetch + b.fetch, quit |-> a.quit \/ b.quit]

\* b is what the synchronous GetBatteryInfo() returned; its error is dropped
initialModel(b) ==
    [info |-> b.info, history |-> <<b.info.Percent>>, err |-> NoErr,
     showAll |-> FALSE, width |-> 0, height |-> 0, helpWidth |-> 0]

InitCmd(v) == IF v = "async" THEN Batch(tickCmd, fetchBatteryCmd) ELSE tickCmd

\* m.history = append(m.history, p); if len(m.history) > 60 { m.history = m.history[1:] }
Push(h, p) ==
    LET a == Append(h, p) IN IF Len(a) > HistoryCap THEN Tail(a) ELSE a

OnQuit(mm) == [m |-> mm, cmd |-> QuitCmd]
OnHelp(mm) == [m |-> [mm EXCEPT !.showAll = ~mm.showAll], cmd |-> NoCmd]
OnOtherKey(mm) == [m |-> mm, cmd |-> NoCmd]
OnWindowSize(mm, w, h) ==
    [m |-> [mm EXCEPT !.width = w, !.height = h, !.helpWidth = w], cmd |-> NoCmd]

\* main.go
OnRefreshAsync(mm) == [m |-> mm, cmd |-> fetchBatteryCmd]
\* mutant: the tick handler starts a fetch and forgets to re-arm the timer
OnTickAsync_NoRearm(mm) == [m |-> mm, cmd |-> fetchBatteryCmd]
OnTickAsync(mm) == [m |-> mm, cmd |-> Batch(tickCmd, fetchBatteryCmd)]
\* a handler that throws the batteryMsg away
OnBatteryMsg_Ignore(mm, msg) == [m |-> mm, cmd |-> NoCmd]

OnBatteryMsg(mm, msg) ==
    [m |-> IF msg.err # NoErr
           THEN [mm EXCEPT !.err = msg.err]
           ELSE [mm EXCEPT !.info = msg.info, !.err = NoErr,
                           !.history = Push(mm.history, msg.info.Percent)],
     cmd |-> NoCmd]

\* the older main: b, err := battery.GetBatteryInfo() inside Update
OnRefreshSync(mm, b) == [m |-> [mm EXCEPT !.info = b.info, !.err = b.err], cmd |-> NoCmd]
\* a synchronous tick handler that refreshes and forgets to re-arm the timer
OnTickSync_NoRearm(mm, b) ==
    [m |-> [mm EXCEPT !.info = b.info, !.err = b.err,
                      !.history = Push(mm.history, b.info.Percent)],
     cmd |-> NoCmd]

OnTickSync(mm, b) ==
    [m |-> [mm EXCEPT !.info = b.info, !.err = b.err,
                      !.history = Push(mm.history, b.info.Percent)],
     cmd |-> tickCmd]

-----------------------------------------------------------------------------
(* Inputs of the scheduler *)

ChargingRaw ==
    [BaseRaw EXCEPT !.CurrentCapacity = 2, !.MaxCapacity = 3, !.IsCharging = "Yes",
                    !.TimeRemaining = Sentinel]
SchedRaws == {BaseRaw, ChargingRaw}
\* one platform query: the registry behind it, how the run went, and what
\* GetBatteryInfo makes of it
Query(r, x) == [raw |-> r, input |-> x, got |-> GetBatteryInfo(x)]

\* either registry read successfully, or a run that fails after partial output
SchedQueries ==
    {Query(r, [ok |-> TRUE, output |-> Render(r)]) : r \in SchedRaws}
    \cup {Query(BaseRaw, [ok |-> FALSE, output |-> Render(BaseRaw)])}

\* LongSpec: a battery of capacity 100 that has lost one unit at each query
Discharge(k) == [BaseRaw EXCEPT !.CurrentCapacity = 100 - k, !.MaxCapacity = 100]
DischargeQuery ==
    [k \in 0..(HistoryCap + LongExtra) |->
        Query(Discharge(k), [ok |-> TRUE, output |-> Render(Discharge(k))])]
Completed == issued - Cardinality(running)
LongQueries == {DischargeQuery[Completed + 1]}

Sizes == {<<80, 24>>}

InFlight == Cardinality(running) + Len(msgs)
SpecLimits == [cycles |-> MaxCycles, inflight |-> MaxInFlight]
LongLimits == [cycles |-> HistoryCap + LongExtra, inflight |-> LongInFlight]
CanIssue(lim) == issued < lim.cycles /\ InFlight < lim.inflight

Record(rd, b) == IF b.err = NoErr THEN Append(rd, b.info.Percent) ELSE rd

-----------------------------------------------------------------------------
(* Actions *)

\* p := tea.NewProgram(initialModel()); p.Run() starts the commands of Init()
Start(qs) ==
    /\ variant \in {"async", "sync"}
    /\ \E q \in qs :
        /\ raw = q.raw
        /\ input = q.input
        /\ result = Returned(q.got)
    /\ m = initialModel(result)
    /\ timers = InitCmd(variant).tick
    /\ running = 1..InitCmd(variant).fetch
    /\ issued = InitCmd(variant).fetch
    /\ msgs = << >>
    /\ quit = FALSE
    /\ readings = << >>

\* the timer fires and Update handles the tickMsg
Tick(lim, qs) ==
    /\ ~quit
    /\ timers > 0
    /\ \/ /\ variant = "async"
          /\ CanIssue(lim)
          /\ LET u == OnTickAsync(m) IN
               /\ m' = u.m
               /\ timers' = timers - 1 + u.cmd.tick
               /\ running' = running \cup ((issued + 1)..(issued + u.cmd.fetch))
               /\ issued' = issued + u.cmd.fetch
          /\ UNCHANGED <<raw, input, result, readings>>
       \/ /\ variant = "sync"
          /\ issued < lim.cycles
          /\ \E q \in qs :
               LET b == q.got
                   u == OnTickSync(m, b)
               IN  /\ raw' = q.raw
                   /\ input' = q.input
                   /\ result' = Returned(b)
                   /\ m' = u.m
                   /\ timers' = timers - 1 + u.cmd.tick
                   /\ readings' = Record(readings, b)
          /\ issued' = issued + 1
          /\ UNCHANGED running
    /\ UNCHANGED <<variant, msgs, quit>>

\* the user presses r
KeyRefresh(lim, qs) ==
    /\ ~quit
    /\ \/ /\ variant = "async"
          /\ CanIssue(lim)
          /\ LET u == OnRefreshAsync(m) IN
               /\ m' = u.m
               /\ timers' = timers + u.cmd.tick
               /\ running' = running \cup ((issued + 1)..(issued + u.cmd.fetch))
               /\ issued' = issued + u.cmd.fetch
          /\ UNCHANGED <<raw, input, result, readings>>
       \/ /\ variant = "sync"
          /\ issued < lim.cycles
          /\ \E q \in qs :
               LET b == q.got
                   u == OnRefreshSync(m, b)
               IN  /\ raw' = q.raw
                   /\ input' = q.input
                   /\ result' = Returned(b)
                   /\ m' = u.m
                   /\ timers' = timers + u.cmd.tick
                   /\ readings' = Record(readings, b)
          /\ issued' = issued + 1
          /\ UNCHANGED running
    /\ UNCHANGED <<variant, msgs, quit>>

\* a fetchBatteryCmd goroutine returns: GetBatteryInfo has run and its batteryMsg is sent
FetchReturns(qs) ==
    /\ ~quit
    /\ \E id \in running : \E q \in qs :
         LET b == q.got IN
           /\ raw' = q.raw
           /\ input' = q.input
           /\ result' = Returned(b)
           /\ msgs' = Append(msgs, [id |-> id, info |-> b.info, err |-> b.err])
           /\ running' = running \ {id}
    /\ UNCHANGED <<variant, m, timers, quit, issued, readings>>

\* Update handles the oldest batteryMsg
HandleBattery ==
    /\ ~quit
    /\ msgs # << >>
    /\ LET msg == Head(msgs)
           u == OnBatteryMsg(m, msg)
       IN  /\ m' = u.m
           /\ timers' = timers + u.cmd.tick
           /\ readings' = Record(readings, msg)
    /\ msgs' = Tail(msgs)
    /\ UNCHANGED <<raw, input, result, variant, running, quit, issued>>

KeyHelp ==
    /\ ~quit
    /\ m' = OnHelp(m).m
    /\ UNCHANGED <<raw, input, result, variant, timers, running, msgs, quit, issued, readings>>

KeyOther ==
    /\ ~quit
    /\ m' = OnOtherKey(m).m
    /\ UNCHANGED <<raw, input, result, variant, timers, running, msgs, quit, issued, readings>>

WindowSize ==
    /\ ~quit
    /\ \E sz \in Sizes : m' = OnWindowSize(m, sz[1], sz[2]).m
    /\ UNCHANGED <<raw, input, result, variant, timers, running, msgs, quit, issued, readings>>

\* q or ctrl+c: Update returns tea.Quit and the program ends
KeyQuit ==
    /\ ~quit
    /\ m' = OnQuit(m).m
    /\ quit' = OnQuit(m).cmd.quit
    /\ UNCHANGED <<raw, input, result, variant, timers, running, msgs, issued, readings>>

Init == Start(SchedQueries)

Next ==
    \/ Tick(SpecLimits, SchedQueries)
    \/ KeyRefresh(SpecLimits, SchedQueries)
    \/ FetchReturns(SchedQueries)
    \/ HandleBattery
    \/ KeyHelp
    \/ KeyOther
    \/ WindowSize
    \/ KeyQuit

Spec == Init /\ [][Next]_vars

\* the timer fires, goroutines return and the event loop handles what was sent
Fairness ==
    /\ WF_vars(Tick(SpecLimits, SchedQueries))
    /\ WF_vars(FetchReturns(SchedQueries))
    /\ WF_vars(HandleBattery)

FairSpec == Spec /\ Fairness

(* LongSpec: long enough runs to fill the history, over a steadily
   discharging battery whose queries all succeed *)

LongInit == Start({DischargeQuery[0]})

LongRefresh ==
    /\ issued < LongKeyWindow
    /\ KeyRefresh(LongLimits, LongQueries)

LongNext ==
    \/ Tick(LongLimits, LongQueries)
    \/ LongRefresh
    \/ FetchReturns(LongQueries)
    \/ HandleBattery

LongSpec == LongInit /\ [][LongNext]_vars

-----------------------------------------------------------------------------
(* Properties of the refresh scheduler *)

\* this step applies the result of one acquisition to the model
Applied ==
    \/ variant = "sync" /\ issued' = issued + 1
    \/ variant = "async" /\ msgs # << >> /\ msgs' = Tail(msgs)

\* the result it applies
AppliedErr == IF variant = "sync" THEN result'.err ELSE Head(msgs).err
AppliedInfo == IF variant = "sync" THEN result'.info ELSE Head(msgs).info

LastN(s, n) == SubSeq(s, Len(s) - n + 1, Len(s))

\* C1: in both variants, applying an acquisition that failed leaves m.info and
\* m.history as they were and sets m.err non-nil.
C1_FailureKeepsLastGood ==
    [][(Applied /\ AppliedErr # NoErr)
        => (m'.info = m.info /\ m'.history = m.history /\ m'.err # NoErr)]_vars

\* C2: history never holds more than 60 entries, and once 61 acquisitions have
\* succeeded it is exactly the 60 most recent percent readings, in arrival order.
C2_HistoryFifo ==
    /\ Len(m.history) <= HistoryCap
    /\ Len(readings) >= HistoryCap + 1 => m.history = LastN(readings, HistoryCap)

\* C3: in both variants, applying an acquisition that succeeded replaces m.info
\* by the new snapshot, clears m.err and appends the snapshot's percent to
\* m.history, dropping the oldest entry when that makes 61.
C3_SuccessUpdates ==
    [][(Applied /\ AppliedErr = NoErr)
        => LET a == Append(m.history, AppliedInfo.Percent) IN
             /\ m'.info = AppliedInfo
             /\ m'.err = NoErr
             /\ m'.history = IF Len(a) > 60 THEN Tail(a) ELSE a]_vars

\* C4: a failed acquisition never stops the scheduler: while the program runs
\* exactly one timer stays armed, after a failure was applied a further
\* GetBatteryInfo call is issued (or the user quits), and an acquisition that
\* then succeeds clears m.err and becomes m.info.
C4_RetryAfterFailure ==
    /\ [](~quit => timers = 1)
    /\ \A k \in 0..(MaxCycles - 1) :
         (m.err # NoErr /\ issued = k /\ ~quit) ~> (quit \/ issued > k)
    /\ [][(Applied /\ AppliedErr = NoErr /\ m.err # NoErr)
            => (m'.err = NoErr /\ m'.info = AppliedInfo)]_vars

\* a failure has been applied and shows, the program runs on and can still retry
C4_Witness ==
    /\ m.err # NoErr
    /\ ~quit
    /\ timers = 1
    /\ issued < MaxCycles

-----------------------------------------------------------------------------
(* Properties of GetBatteryInfo, over the registry values raw that the dump
   was printed from *)

Parsed == result.done /\ input.ok
Num(v) == IF v = Absent THEN 0 ELSE v

\* C5: with MaxCapacity > 0 the percent is floor(CurrentCapacity * 100 /
\* MaxCapacity); with MaxCapacity 0 or absent it is 0.
C5_PercentFloor ==
    Parsed =>
        LET cur == Num(raw.CurrentCapacity)
            max == raw.MaxCapacity
            p == result.info.Percent
        IN  IF max > 0
            THEN p * max <= cur * 100 /\ cur * 100 < (p + 1) * max
            ELSE p = 0

C5_Witness ==
    /\ Parsed
    /\ raw.CurrentCapacity = 15
    /\ raw.MaxCapacity = 97
    /\ result.info.Percent = 15

\* C6: the percent of every snapshot, and so every entry of history, lies in 0..100.
C6_PercentInRange ==
    /\ result.done => result.info.Percent \in 0..100
    /\ \A i \in 1..Len(m.history) : m.history[i] \in 0..100

\* C7 as claimed: only TimeRemaining = 65535 is the unknown marker ("Calculating...",
\* or "" when Charged); every other value, above 65535 too, is shown as "H:MM remaining".
HMM(t) ==
    Itoa(t \div 60) \o <<":", Digit((t % 60) \div 10), Digit((t % 60) % 10), " remaining">>

C7_OnlySentinelUnknown ==
    (Parsed /\ raw.TimeRemaining # Absent) =>
        LET t == raw.TimeRemaining IN
          result.info.Remaining =
            IF t = Sentinel
            THEN (IF result.info.Status = "Charged" THEN << >> ELSE <<"Calculating...">>)
            ELSE HMM(t)

\* C7 amended: TimeRemaining >= 65535 gives "Calculating...", or "" when the status
\* is Charged; TimeRemaining < 65535 gives "H:MM remaining", H = m div 60 and MM =
\* m mod 60 on two digits.
C7_RemainingLabel ==
    (Parsed /\ raw.TimeRemaining # Absent) =>
        LET t == raw.TimeRemaining IN
          /\ result.info.Remaining =
               IF t >= Sentinel
               THEN (IF result.info.Status = "Charged" THEN << >> ELSE <<"Calculating...">>)
               ELSE HMM(t)
          /\ t = 125 => result.info.Remaining = <<"2", ":", "0", "5", " remaining">>
          /\ t = 0 => result.info.Remaining = <<"0", ":", "0", "0", " remaining">>
          /\ t = 65534 => result.info.Remaining = <<"1", "0", "9", "2", ":", "1", "4", " remaining">>

C7_Witness ==
    /\ Parsed
    /\ raw.TimeRemaining > Sentinel
    /\ result.info.Status = "Charged"
    /\ result.info.Remaining = << >>

\* C8: IsCharging = Yes gives status Charging and isCharging true whatever
\* FullyCharged is; otherwise isCharging is false and the status is Charged when
\* FullyCharged = Yes, Discharging when not.
C8_StatusFromFlags ==
    Parsed =>
        IF raw.IsCharging = "Yes"
        THEN result.info.Status = "Charging" /\ result.info.IsCharging
        ELSE /\ ~result.info.IsCharging
             /\ result.info.Status = IF raw.FullyCharged = "Yes" THEN "Charged" ELSE "Discharging"

C8_Witness ==
    /\ Parsed
    /\ raw.IsCharging = "Yes"
    /\ raw.FullyCharged = "Yes"
    /\ result.info.Status = "Charging"

\* the health text is h% for an integer h nearest to rawMax / design * 100
NearestPct(text, rawMax, design) ==
    LET q == (rawMax * 100) \div design IN
      \E h \in {q, q + 1} :
        /\ text = Itoa(h) \o <<"%">>
        /\ 2 * (h * design - rawMax * 100) <= design
        /\ 2 * (rawMax * 100 - h * design) <= design

\* C9 as claimed: health is present exactly when DesignCapacity and
\* AppleRawMaxCapacity both appear and DesignCapacity is not 0 (a raw maximum of 0
\* gives "0%"), and is then the rounded ratio.
C9_HealthIffPresent ==
    Parsed =>
        LET d == raw.DesignCapacity
            x == raw.AppleRawMaxCapacity
        IN  IF d # Absent /\ x # Absent /\ d # 0
            THEN NearestPct(result.info.Health, x, d)
            ELSE result.info.Health = << >>

\* C9 amended: health is present exactly when DesignCapacity > 0 and
\* AppleRawMaxCapacity > 0 both appear (a raw maximum of 0 gives no health value),
\* and is then rawMax / design * 100 rounded to the nearest integer, followed by %.
C9_HealthIffPositive ==
    Parsed =>
        LET d == raw.DesignCapacity
            x == raw.AppleRawMaxCapacity
        IN  /\ IF d > 0 /\ x > 0
               THEN NearestPct(result.info.Health, x, d)
               ELSE result.info.Health = << >>
            /\ (d = 8579 /\ x = 7800) => result.info.Health = <<"9", "1", "%">>

C9_Witness ==
    /\ Parsed
    /\ raw.DesignCapacity > 0
    /\ raw.AppleRawMaxCapacity = 0
    /\ result.info.Health = << >>

\* C10: GetBatteryInfo returns an error exactly when the ioreg run failed, and the
\* snapshot it returns with the error is the initial one: percent 0, not charging,
\* 0.0 degrees, no cycles, max capacity 0, 0 W, no serial, no health, status
\* "Unknown" and remaining "Calculating...", whatever the run had already printed.
C10_ErrorLeavesDefaults ==
    result.done =>
        /\ (result.err # NoErr) <=> ~input.ok
        /\ result.err # NoErr =>
             /\ result.info.Percent = 0
             /\ result.info.IsCharging = FALSE
             /\ result.info.Temperature = [deg |-> 0, centi |-> 0]
             /\ result.info.CycleCount = 0
             /\ result.info.MaxCapacity = 0
             /\ result.info.Wattage = 0
             /\ result.info.Serial = ""
             /\ result.info.Health = << >>
             /\ result.info.Condition = ""
             /\ result.info.Status = "Unknown"
             /\ result.info.Remaining = <<"Calculating...">>

C10_Witness ==
    /\ result.done
    /\ ~input.ok
    /\ input.output # << >>
    /\ raw.CurrentCapacity > 0
    /\ raw.MaxCapacity > 0
    /\ result.err = ExecErr
    /\ result.info.Percent = 0

\* C11: whatever text the query returns (empty, malformed, any fields missing),
\* GetBatteryInfo returns no error, and a field that does not appear is left at
\* its zero value: temperature 0.0, cycle count 0, wattage 0, serial empty,
\* max capacity 0, percent 0, no health.
C11_MissingFieldsAreZero ==
    (result.done /\ input.ok) =>
        /\ result.err = NoErr
        /\ raw.Temperature = Absent => result.info.Temperature = [deg |-> 0, centi |-> 0]
        /\ raw.CycleCount = Absent => result.info.CycleCount = 0
        /\ raw.Watts = Absent => result.info.Wattage = 0
        /\ raw.Serial = "" => result.info.Serial = ""
        /\ raw.MaxCapacity = Absent => (result.info.MaxCapacity = 0 /\ result.info.Percent = 0)
        /\ raw.CurrentCapacity = Absent => result.info.Percent = 0
        /\ (raw.DesignCapacity = Absent \/ raw.AppleRawMaxCapacity = Absent)
              => result.info.Health = << >>

\* a dump of malformed records only has been parsed
C11_Witness ==
    /\ result.done
    /\ input.ok
    /\ raw = [EmptyRaw EXCEPT !.noise = TRUE]
    /\ input.output = Malformed
    /\ result.err = NoErr
    /\ result.info.Temperature = [deg |-> 0, centi |-> 0]

\* C12: a snapshot whose status is Charged has the empty remaining label,
\* whatever TimeRemaining is (values below 65535 such as 0 included).
C12_ChargedHasNoLabel ==
    (Parsed /\ result.info.Status = "Charged") => result.info.Remaining = << >>

\* C15: a dump without TimeRemaining whose status is not Charged has the label
\* "Calculating...", never a formatted time.
C15_MissingTimeIsCalculating ==
    (Parsed /\ raw.TimeRemaining = Absent /\ result.info.Status # "Charged")
        => result.info.Remaining = <<"Calculating...">>

\* C13: in both variants, the handler of a tick or of a manual refresh only
\* starts one background acquisition and returns: the step that issues a cycle
\* adds one running goroutine, runs no query itself and leaves m.info, m.err and
\* m.history alone; the result arrives in a later step.
C13_IssueOnlyStartsBackground ==
    [][(issued' = issued + 1)
        => /\ running' = running \cup {issued + 1}
           /\ result' = result
           /\ m'.info = m.info
           /\ m'.err = m.err
           /\ m'.history = m.history]_vars

\* a tick or a press of r is being handled
Requested == Tick(SpecLimits, SchedQueries) \/ KeyRefresh(SpecLimits, SchedQueries)

\* C14: every tick and every manual refresh issues exactly one new acquisition,
\* also while earlier ones are in flight; a goroutine's result is queued once,
\* behind the results that arrived before it, and leaves the queue only by being
\* applied at its head, so results are applied once each in arrival order and a
\* successful result of an older cycle that arrives late overwrites m.info.
C14_IssueAndApplyInArrivalOrder ==
    /\ []((variant = "async" /\ ~quit /\ CanIssue(SpecLimits))
            => /\ ENABLED (KeyRefresh(SpecLimits, SchedQueries) /\ running' = running \cup {issued + 1})
               /\ timers > 0
               /\ ENABLED (Tick(SpecLimits, SchedQueries) /\ running' = running \cup {issued + 1}))
    /\ [][/\ Requested => issued' = issued + 1
          /\ (Requested /\ variant = "async")
                => (running' = running \cup {issued + 1} /\ msgs' = msgs /\ m'.info = m.info)
          /\ issued' # issued => Requested
          /\ running' # running
                => \/ Requested
                   \/ \E id \in running :
                        /\ running' = running \ {id}
                        /\ Len(msgs') = Len(msgs) + 1
                        /\ SubSeq(msgs', 1, Len(msgs)) = msgs
                        /\ msgs'[Len(msgs')].id = id
          /\ msgs' # msgs
                => \/ Len(msgs') = Len(msgs) + 1 /\ running' # running
                   \/ /\ msgs # << >>
                      /\ msgs' = Tail(msgs)
                      /\ Head(msgs).err = NoErr
                            => (m'.info = Head(msgs).info /\ m'.err = NoErr)
                      /\ Head(msgs).err # NoErr => m'.err = Head(msgs).err]_vars

\* cycle 2 was issued while cycle 1 was in flight and has been applied; the
\* result of cycle 1 arrived after it and is about to overwrite m.info
C14_Witness ==
    /\ variant = "async"
    /\ issued = 2
    /\ running = {}
    /\ Len(msgs) = 1
    /\ msgs[1].id = 1
    /\ msgs[1].err = NoErr
    /\ Len(readings) = 1
    /\ m.info # msgs[1].info

\* nothing but the start-up acquisition of initialModel has completed: result
\* is still what that acquisition returned
OnlyStartupDone ==
    /\ readings = << >>
    /\ msgs = << >>
    /\ running = 1..issued
    /\ variant = "sync" => issued = 0

\* C16: history holds only percents of acquisitions that succeeded, the entry
\* made at start-up included: while only the start-up acquisition has completed,
\* history is its percent if it succeeded, and if it failed history is empty
\* and m.err shows the failure.
C16_StartupFailureRecordsNothing ==
    OnlyStartupDone =>
        /\ result.err = NoErr => m.history = <<result.info.Percent>>
        /\ result.err # NoErr => (m.history = << >> /\ m.err # NoErr)

\* C17: in every reachable state m.history is non-empty and its last entry is
\* m.info.Percent.
C17_LastEntryIsCurrentPercent ==
    /\ Len(m.history) > 0
    /\ m.history[Len(m.history)] = m.info.Percent

\* the timers a handler's command arms
Arms(u) == u.cmd.tick

\* C18: from start-up until quit exactly one refresh timer is pending: Init arms
\* one, the tick handler (which consumes the one that fired) arms exactly one,
\* no other handler arms any and no step changes the number pending, so the
\* tick can always fire next, however many acquisitions are in flight.
C18_ExactlyOneTimer ==
    /\ InitCmd(variant).tick = 1
    /\ [](~quit =>
            /\ timers = 1
            /\ Arms(OnTickAsync(m)) = 1
            /\ \A q \in SchedQueries :
                 /\ Arms(OnTickSync(m, q.got)) = 1
                 /\ Arms(OnRefreshSync(m, q.got)) = 0
            /\ Arms(OnRefreshAsync(m)) = 0
            /\ msgs # << >> => Arms(OnBatteryMsg(m, Head(msgs))) = 0
            /\ Arms(OnHelp(m)) = 0
            /\ Arms(OnOtherKey(m)) = 0
            /\ \A sz \in Sizes : Arms(OnWindowSize(m, sz[1], sz[2])) = 0
            /\ (issued < MaxCycles /\ (variant = "async" => InFlight < MaxInFlight))
                  => ENABLED Tick(SpecLimits, SchedQueries))
    /\ [][timers' = timers]_vars

\* a tick has been handled while the start-up fetch was still running: two
\* acquisitions are in flight and one timer is pending
C18_Witness ==
    /\ ~quit
    /\ variant = "async"
    /\ running = {1, 2}
    /\ issued = 2
    /\ timers = 1

====
